---- MODULE Spec2Model ----
(***************************************************************************)
(* Model of app.py, the India Air Quality dashboard script.                *)
(*                                                                         *)
(* The script runs top to bottom once per pass (a pass is started by the   *)
(* first page load and again by every widget change).  Each section of the *)
(* script is one action; pc is the section the pass is about to execute.   *)
(*                                                                         *)
(* Encoding of values:                                                     *)
(*   - a table cell is <<>> when it is missing (NaN / NaT) and <<v>>       *)
(*     otherwise;                                                          *)
(*   - AQI values are integers counting tenths (<<501>> is 50.1);          *)
(*   - a timestamp is an integer counting half days, day d at 00:00 being  *)
(*     2*d and day d at 12:00 being 2*d+1 (day 1 is 2020-01-01);           *)
(*   - a mean is the exact fraction [sum, n]; n = 0 is the NaN mean of no  *)
(*     values.                                                             *)
(* The widgets are the environment: a pass receives any selection the      *)
(* widgets can return for the loaded table.                                *)
(***************************************************************************)
EXTENDS Integers, Sequences, FiniteSets, TLC

VARIABLES
    file,               \* contents of city_day.csv: [cols, rows]
    pc,                 \* section the pass executes next
    reran,              \* TRUE once a widget change has restarted the script
    status,             \* load banner: "none", "success" or "error"
    df,                 \* the table: [cols, rows]
    selected_cities,    \* value of the city multiselect
    date_range,         \* value of the date input: a tuple of 1 or 2 days
    selected_pollutant, \* value of the pollutant selectbox
    filtered_df,        \* df.loc[mask]
    kpi,                \* what the KPI section displayed
    fig,                \* line chart
    aqi_avg,            \* per-city mean table of the bar chart section
    fig2,               \* bar chart
    fig3,               \* box chart
    alerts              \* alert lines written so far

vars == <<file, pc, reran, status, df, selected_cities, date_range,
          selected_pollutant, filtered_df, kpi, fig, aqi_avg, fig2, fig3, alerts>>

-----------------------------------------------------------------------------
(* Bounds and input domains *)

MaxRows == 2

NaN == <<>>

pollutants == {"PM2.5", "PM10", "NO2", "SO2", "O3", "CO"}

\* City names of the input files, listed in Python's string order.
CityNames == <<"Delhi", "Mumbai">>

\* Texts of the timestamp column: one unparseable, two parseable.
RawDates == {<<"bad">>, <<"2020-01-01 12:00">>, <<"2020-01-02 00:00">>}

\* Days the date input can return (1 is 2020-01-01, 2 is 2020-01-02).
Days == {1, 2}

\* The date input returns one day while a range is being picked, else two.
DateRanges == {<<a>> : a \in Days} \cup {<<a, b>> : a \in Days, b \in Days}

PollutantChoices == {"PM2.5", "CO"}

SeqsUpTo(S, n) == UNION {[1..k -> S] : k \in 0..n}

Cells(names) == {<<names[i]>> : i \in 1..Len(names)}

\* Files for the cleaning step: no AQI column, the timestamp in column tscol,
\* cities and timestamps possibly missing or unparseable.
CleanRows(tscol) ==
    {[City |-> c,
      Date |-> IF tscol = "Date" THEN t ELSE NaN,
      Datetime |-> IF tscol = "Datetime" THEN t ELSE NaN,
      AQI |-> NaN] : c \in Cells(CityNames) \cup {NaN}, t \in RawDates}

CleanFiles ==
    UNION {{[cols |-> {"City", tscol} \cup pollutants, rows |-> rs] :
                rs \in SeqsUpTo(CleanRows(tscol), MaxRows)} :
           tscol \in {"Date", "Datetime"}}

\* Files with both timestamp columns, holding unrelated texts.
BothRows ==
    {[City |-> <<"Delhi">>, Date |-> t, Datetime |-> u, AQI |-> NaN] :
        t \in RawDates, u \in RawDates}

BothFiles ==
    {[cols |-> {"City", "Date", "Datetime"} \cup pollutants, rows |-> rs] :
        rs \in SeqsUpTo(BothRows, MaxRows)}

\* Files for the aggregation steps: clean cities and dates, AQI possibly
\* missing, no CO column.
AggRows ==
    {[City |-> c, Date |-> t, Datetime |-> NaN, AQI |-> a] :
        c \in Cells(CityNames),
        t \in RawDates \ {<<"bad">>},
        a \in {NaN, <<1000>>, <<2001>>}}

AggCols == {"City", "Date", "AQI"} \cup (pollutants \ {"CO"})

AggFiles == {[cols |-> AggCols, rows |-> rs] : rs \in SeqsUpTo(AggRows, MaxRows)}

\* One-reading files at the boundaries of the alert bands.
BandFiles ==
    {[cols |-> AggCols,
      rows |-> <<[City |-> <<"Delhi">>, Date |-> <<"2020-01-02 00:00">>,
                  Datetime |-> NaN, AQI |-> <<a>>]>>] :
        a \in {500, 501, 1001, 2000}}

\* Files without a City column, or without any timestamp column.
HeaderOnlyFiles ==
    {[cols |-> {"Date"} \cup pollutants, rows |-> <<>>],
     [cols |-> {"City"} \cup pollutants, rows |-> <<>>]}

Files == CleanFiles \cup BothFiles \cup AggFiles \cup BandFiles \cup HeaderOnlyFiles

-----------------------------------------------------------------------------
(* Library functions the script calls *)

\* pd.to_datetime(text, errors='coerce')
to_datetime(raw) ==
    CASE raw = <<"2020-01-01 12:00">> -> <<3>>
      [] raw = <<"2020-01-02 00:00">> -> <<4>>
      [] OTHER -> NaN

\* pd.Timestamp(day): midnight of that day
Timestamp(d) == 2 * d

\* position of a city name in sorted order
CityRank(c) == CHOOSE i \in 1..Len(CityNames) : CityNames[i] = c

Min(S) == CHOOSE x \in S : \A y \in S : x <= y

Max(S) == CHOOSE x \in S : \A y \in S : y <= x

NoFrame == [cols |-> {}, rows |-> <<>>]

NoKpi == [kind |-> "none", avg |-> [sum |-> 0, n |-> 0], worst |-> NaN, best |-> NaN]

-----------------------------------------------------------------------------
(* CLEAN DATA (lines 57-63) *)

\* lines 57-60: the Date column becomes the parse of Datetime when the file
\* has that column, of Date otherwise
ParseDates(frame) ==
    [cols |-> frame.cols \cup {"Date"},
     rows |-> [i \in 1..Len(frame.rows) |->
                 [frame.rows[i] EXCEPT !.Date =
                     IF "Datetime" \in frame.cols
                     THEN to_datetime(frame.rows[i].Datetime)
                     ELSE to_datetime(frame.rows[i].Date)]]]

\* dropna(subset=['Date']): the city is not looked at
dropna_DateOnly(rows) == SelectSeq(rows, LAMBDA r : r.Date # NaN)

Retained(r) == r.City # NaN /\ r.Date # NaN

\* line 62: df.dropna(subset=['City', 'Date'])
dropna(rows) == SelectSeq(rows, Retained)

\* line 63: the orders sort_values(by='Date') may return.  Its default sort
\* is not stable, so rows with equal dates may come out in any order.
SortOrders(rows) ==
    {p \in Permutations(1..Len(rows)) :
        \A i, j \in 1..Len(rows) :
            i < j => rows[p[i]].Date[1] <= rows[p[j]].Date[1]}

Reorder(rows, p) == [i \in 1..Len(rows) |-> rows[p[i]]]

-----------------------------------------------------------------------------
(* SIDEBAR FILTERS (lines 68-87) *)

\* line 70: the options of the city multiselect
CitiesOf(rows) == {rows[i].City[1] : i \in 1..Len(rows)}

\* the mask with an exclusive upper bound
Mask_ExclusiveEnd(r, cities, range) ==
    /\ r.City[1] \in cities
    /\ r.Date[1] >= Timestamp(range[1])
    /\ r.Date[1] < Timestamp(range[Len(range)])

\* lines 82-86: the mask of one row; date_range[-1] is the last element
Mask(r, cities, range) ==
    /\ r.City[1] \in cities
    /\ r.Date[1] >= Timestamp(range[1])
    /\ r.Date[1] <= Timestamp(range[Len(range)])

\* line 87: df.loc[mask]
Filter(frame, cities, range) ==
    [cols |-> frame.cols,
     rows |-> SelectSeq(frame.rows, LAMBDA r : Mask(r, cities, range))]

-----------------------------------------------------------------------------
(* Aggregations (lines 96-98, 129) *)

RECURSIVE SumAQI(_)
SumAQI(rows) ==
    IF rows = <<>> THEN 0
    ELSE (IF Head(rows).AQI = NaN THEN 0 ELSE Head(rows).AQI[1]) + SumAQI(Tail(rows))

HasAQI(r) == r.AQI # NaN

\* Series.mean(): missing values are left out of the sum and of the count
MeanAQI(rows) == [sum |-> SumAQI(rows), n |-> Len(SelectSeq(rows, HasAQI))]

IsNaNMean(m) == m.n = 0

MeanLeq(a, b) == a.sum * b.n <= b.sum * a.n

MeanEq(a, b) == a.sum * b.n = b.sum * a.n

\* groupby('City')['AQI'].mean(): one entry per city of the rows, in sorted
\* city order; a city whose AQI values are all missing has a NaN entry
GroupMean(rows) ==
    LET keys == SelectSeq(CityNames, LAMBDA c : c \in CitiesOf(rows))
    IN  [i \in 1..Len(keys) |->
            [City |-> keys[i],
             AQI  |-> MeanAQI(SelectSeq(rows, LAMBDA r : r.City[1] = keys[i]))]]

Valid(series) == {i \in 1..Len(series) : ~IsNaNMean(series[i].AQI)}

\* an idxmax that returns the last occurrence of the largest value
idxmax_Last(series) ==
    LET top == {i \in Valid(series) :
                    \A j \in Valid(series) : MeanLeq(series[j].AQI, series[i].AQI)}
    IN  IF top = {} THEN NaN ELSE <<series[Max(top)].City>>

\* Series.idxmax(): label of the first occurrence of the largest value,
\* missing values skipped; NaN when there is no value
idxmax(series) ==
    LET top == {i \in Valid(series) :
                    \A j \in Valid(series) : MeanLeq(series[j].AQI, series[i].AQI)}
    IN  IF top = {} THEN NaN ELSE <<series[Min(top)].City>>

\* Series.idxmin(): first occurrence of the smallest value
idxmin(series) ==
    LET bottom == {i \in Valid(series) :
                    \A j \in Valid(series) : MeanLeq(series[i].AQI, series[j].AQI)}
    IN  IF bottom = {} THEN NaN ELSE <<series[Min(bottom)].City>>

-----------------------------------------------------------------------------
(* AQI ALERTS (lines 161-174) *)

GoodMax == 50

ModerateMax == 100

PoorMax == 200

\* latest_aqi <= k; a comparison with NaN is false
AtMost(v, k) == v # NaN /\ v[1] <= k * 10

\* the threshold chain with strict comparisons
Level_Strict(latest_aqi) ==
    IF latest_aqi # NaN /\ latest_aqi[1] < GoodMax * 10 THEN "Good"
    ELSE IF latest_aqi # NaN /\ latest_aqi[1] < ModerateMax * 10 THEN "Moderate"
    ELSE IF latest_aqi # NaN /\ latest_aqi[1] < PoorMax * 10 THEN "Poor"
    ELSE "Severe"

\* lines 165-172
Level(latest_aqi) ==
    IF AtMost(latest_aqi, GoodMax) THEN "Good"
    ELSE IF AtMost(latest_aqi, ModerateMax) THEN "Moderate"
    ELSE IF AtMost(latest_aqi, PoorMax) THEN "Poor"
    ELSE "Severe"

\* lines 162-174 for one city
AlertLine(city, view) ==
    LET city_data == SelectSeq(view.rows, LAMBDA r : r.City[1] = city)
    IN  IF "AQI" \in view.cols /\ SelectSeq(city_data, HasAQI) # <<>>
        THEN [city |-> city,
              level |-> Level(city_data[Len(city_data)].AQI),
              aqi |-> city_data[Len(city_data)].AQI]
        ELSE [city |-> city, level |-> "NoData", aqi |-> NaN]

-----------------------------------------------------------------------------
(* The script, section by section *)

Init ==
    /\ file \in Files
    /\ pc = "load"
    /\ reran = FALSE
    /\ status = "none"
    /\ df = NoFrame
    /\ selected_cities = {}
    /\ date_range = <<>>
    /\ selected_pollutant = ""
    /\ filtered_df = NoFrame
    /\ kpi = NoKpi
    /\ fig = "none"
    /\ aqi_avg = <<>>
    /\ fig2 = "none"
    /\ fig3 = "none"
    /\ alerts = {}

\* an uncaught exception ends the pass
Raise ==
    /\ pc' = "crashed"
    /\ UNCHANGED <<file, reran, status, df, selected_cities, date_range,
                   selected_pollutant, filtered_df, kpi, fig, aqi_avg, fig2, fig3,
                   alerts>>

\* lines 48-49
LoadSuccess ==
    /\ df' = file
    /\ status' = "success"
    /\ pc' = "clean"

\* the except branch without st.stop()
LoadFailure_Continues ==
    /\ df' = df
    /\ status' = "error"
    /\ pc' = "clean"

\* lines 50-52: st.error, st.stop
LoadFailure ==
    /\ df' = df
    /\ status' = "error"
    /\ pc' = "stopped"

\* lines 47-52; the read fails or succeeds
LoadData ==
    /\ pc = "load"
    /\ \E ok \in BOOLEAN : IF ok THEN LoadSuccess ELSE LoadFailure
    /\ UNCHANGED <<file, reran, selected_cities, date_range, selected_pollutant,
                   filtered_df, kpi, fig, aqi_avg, fig2, fig3, alerts>>

\* lines 57-63; a missing column is a KeyError
CleanData ==
    /\ pc = "clean"
    /\ IF "City" \notin df.cols \/ {"Date", "Datetime"} \cap df.cols = {}
       THEN Raise
       ELSE LET kept == dropna(ParseDates(df).rows)
            IN  /\ \E p \in SortOrders(kept) :
                        df' = [cols |-> ParseDates(df).cols, rows |-> Reorder(kept, p)]
                /\ pc' = "sidebar"
                /\ UNCHANGED <<file, reran, status, selected_cities, date_range,
                               selected_pollutant, filtered_df, kpi, fig, aqi_avg,
                               fig2, fig3, alerts>>

\* lines 68-87: the widgets return a selection, the mask filters the table
SidebarFilters ==
    /\ pc = "sidebar"
    /\ \E cities \in SUBSET CitiesOf(df.rows), range \in DateRanges,
          pollutant \in PollutantChoices :
            /\ selected_cities' = cities
            /\ date_range' = range
            /\ selected_pollutant' = pollutant
            /\ filtered_df' = Filter(df, cities, range)
    /\ pc' = "kpi"
    /\ UNCHANGED <<file, reran, status, df, kpi, fig, aqi_avg, fig2, fig3, alerts>>

\* lines 95-104.  When no city has an AQI value, idxmax returns NaN or raises
\* ValueError, depending on the pandas release.
KpiMetrics ==
    /\ pc = "kpi"
    /\ \E raises \in BOOLEAN :
        IF "AQI" \in filtered_df.cols /\ filtered_df.rows # <<>>
        THEN LET series == GroupMean(filtered_df.rows)
             IN  IF Valid(series) = {} /\ raises
                 THEN Raise
                 ELSE /\ kpi' = [kind |-> "metrics",
                                 avg |-> MeanAQI(filtered_df.rows),
                                 worst |-> idxmax(series),
                                 best |-> idxmin(series)]
                      /\ pc' = "line"
                      /\ UNCHANGED <<file, reran, status, df, selected_cities,
                                     date_range, selected_pollutant, filtered_df,
                                     fig, aqi_avg, fig2, fig3, alerts>>
        ELSE /\ kpi' = [NoKpi EXCEPT !.kind = "warning"]
             /\ pc' = "line"
             /\ UNCHANGED <<file, reran, status, df, selected_cities, date_range,
                            selected_pollutant, filtered_df, fig, aqi_avg, fig2,
                            fig3, alerts>>

\* lines 111-121; px.line raises ValueError when the y column is missing
LineChart ==
    /\ pc = "line"
    /\ IF selected_pollutant \in filtered_df.cols
       THEN /\ fig' = "chart"
            /\ pc' = "bar"
            /\ UNCHANGED <<file, reran, status, df, selected_cities, date_range,
                           selected_pollutant, filtered_df, kpi, aqi_avg, fig2,
                           fig3, alerts>>
       ELSE Raise

\* lines 128-139; without an AQI column the section shows nothing
BarChart ==
    /\ pc = "bar"
    /\ IF "AQI" \in filtered_df.cols
       THEN /\ aqi_avg' = GroupMean(filtered_df.rows)
            /\ fig2' = "chart"
       ELSE UNCHANGED <<aqi_avg, fig2>>
    /\ pc' = "box"
    /\ UNCHANGED <<file, reran, status, df, selected_cities, date_range,
                   selected_pollutant, filtered_df, kpi, fig, fig3, alerts>>

\* lines 146-154
BoxChart ==
    /\ pc = "box"
    /\ IF selected_pollutant \in filtered_df.cols
       THEN /\ fig3' = "chart"
            /\ pc' = "alerts"
            /\ UNCHANGED <<file, reran, status, df, selected_cities, date_range,
                           selected_pollutant, filtered_df, kpi, fig, aqi_avg,
                           fig2, alerts>>
       ELSE Raise

\* lines 161-174: one line per selected city
AqiAlerts ==
    /\ pc = "alerts"
    /\ alerts' = {AlertLine(city, filtered_df) : city \in selected_cities}
    /\ pc' = "done"
    /\ UNCHANGED <<file, reran, status, df, selected_cities, date_range,
                   selected_pollutant, filtered_df, kpi, fig, aqi_avg, fig2, fig3>>

\* a rerun that takes the new selection but keeps the view of the last pass
Rerun_ReusesView ==
    /\ pc \in {"done", "stopped", "crashed"}
    /\ pc' = "kpi"
    /\ reran' = TRUE
    /\ \E cities \in SUBSET CitiesOf(filtered_df.rows), range \in DateRanges :
            /\ selected_cities' = cities
            /\ date_range' = range
    /\ kpi' = NoKpi
    /\ fig' = "none"
    /\ aqi_avg' = <<>>
    /\ fig2' = "none"
    /\ fig3' = "none"
    /\ alerts' = {}
    /\ UNCHANGED <<file, status, df, selected_pollutant, filtered_df>>

\* A widget change starts the script again from the top, in a fresh namespace.
Rerun ==
    /\ pc \in {"done", "stopped", "crashed"}
    /\ pc' = "load"
    /\ reran' = TRUE
    /\ status' = "none"
    /\ df' = NoFrame
    /\ selected_cities' = {}
    /\ date_range' = <<>>
    /\ selected_pollutant' = ""
    /\ filtered_df' = NoFrame
    /\ kpi' = NoKpi
    /\ fig' = "none"
    /\ aqi_avg' = <<>>
    /\ fig2' = "none"
    /\ fig3' = "none"
    /\ alerts' = {}
    /\ UNCHANGED file

Next ==
    \/ LoadData
    \/ CleanData
    \/ SidebarFilters
    \/ KpiMetrics
    \/ LineChart
    \/ BarChart
    \/ BoxChart
    \/ AqiAlerts
    \/ Rerun

Spec == Init /\ [][Next]_vars

-----------------------------------------------------------------------------
(* Properties *)

Cleaned == pc \in {"sidebar", "kpi", "line", "bar", "box", "alerts", "done"}

Filtered == pc \in {"kpi", "line", "bar", "box", "alerts", "done"}

KpiDone == pc \in {"line", "bar", "box", "alerts", "done"}

BarDone == pc \in {"box", "alerts", "done"}

Count(rows, v) == Cardinality({i \in 1..Len(rows) : rows[i] = v})

Range(rows) == {rows[i] : i \in 1..Len(rows)}

\* the rows of one city in the filtered view
CityData(c) == SelectSeq(filtered_df.rows, LAMBDA r : r.City[1] = c)

\* cities of the view that have at least one AQI value
Measured == {c \in CitiesOf(filtered_df.rows) : SelectSeq(CityData(c), HasAQI) # <<>>}

CityMean(c) == MeanAQI(CityData(c))

Worst == {c \in Measured : \A d \in Measured : MeanLeq(CityMean(d), CityMean(c))}

Best == {c \in Measured : \A d \in Measured : MeanLeq(CityMean(c), CityMean(d))}

FirstRow(c) == Min({i \in 1..Len(filtered_df.rows) : filtered_df.rows[i].City[1] = c})

EarliestOf(S) == CHOOSE c \in S : \A d \in S : FirstRow(c) <= FirstRow(d)

FirstNamedOf(S) == CHOOSE c \in S : \A d \in S : CityRank(c) <= CityRank(d)

\* C1: after cleaning, the table is sorted non-decreasing by timestamp, every
\* row has a city and a parsed timestamp, and a row of the file is in the
\* table iff its city and its parsed timestamp are both non-null.
C1_CleanedTable ==
    Cleaned =>
        LET parsed == ParseDates(file).rows
        IN  /\ \A i, j \in 1..Len(df.rows) :
                    i < j => df.rows[i].Date[1] <= df.rows[j].Date[1]
            /\ \A i \in 1..Len(df.rows) :
                    df.rows[i].City # NaN /\ df.rows[i].Date # NaN
            /\ \A v \in Range(parsed) \cup Range(df.rows) :
                    Count(df.rows, v) =
                        IF v.City # NaN /\ v.Date # NaN THEN Count(parsed, v) ELSE 0

\* C1 witness: a two-row file whose rows were out of order has been sorted.
C1_Witness ==
    /\ Cleaned
    /\ Len(df.rows) = 2
    /\ Len(file.rows) = 2
    /\ df.rows[1].Date[1] < df.rows[2].Date[1]
    /\ df.rows[1] = ParseDates(file).rows[2]

\* C2: the view holds exactly the rows of the table whose city is selected
\* and whose timestamp lies between the two bounds, both inclusive, in table
\* order; it is empty for an empty city set and for start > end.
C2_FilterExact ==
    Filtered =>
        LET start == Timestamp(date_range[1])
            end == Timestamp(date_range[Len(date_range)])
            member == {i \in 1..Len(df.rows) :
                            /\ df.rows[i].City[1] \in selected_cities
                            /\ start <= df.rows[i].Date[1]
                            /\ df.rows[i].Date[1] <= end}
            view == filtered_df.rows
        IN  /\ Len(view) = Cardinality(member)
            /\ \E f \in [1..Len(view) -> member] :
                    /\ \A k, l \in 1..Len(view) : k < l => f[k] < f[l]
                    /\ \A k \in 1..Len(view) : view[k] = df.rows[f[k]]
            /\ (selected_cities = {} => view = <<>>)
            /\ (start > end => view = <<>>)

\* C2 witness: a row dated exactly at the upper bound is in the view while
\* another row of the table is not.
C2_Witness ==
    /\ Filtered
    /\ Len(filtered_df.rows) < Len(df.rows)
    /\ \E k \in 1..Len(filtered_df.rows) :
            filtered_df.rows[k].Date[1] = Timestamp(date_range[Len(date_range)])

\* C3 (as claimed): a selected city with no row in the view, or whose last
\* row in the view has no AQI, gets the "no data" line and no alert level.
C3_NoDataForNullLatest ==
    pc = "done" =>
        \A c \in selected_cities :
            (CityData(c) = <<>> \/ CityData(c)[Len(CityData(c))].AQI = NaN)
                => \A a \in alerts : a.city = c => a.level = "NoData"

\* C4: a non-null AQI v is classified Good iff v <= 50, Moderate iff
\* 50 < v <= 100, Poor iff 100 < v <= 200, Severe iff v > 200, and a city
\* gets exactly one line.
C4_Bands ==
    pc = "done" =>
        \A a \in alerts :
            a.aqi # NaN =>
                /\ a.level = "Good" <=> a.aqi[1] <= 500
                /\ a.level = "Moderate" <=> (500 < a.aqi[1] /\ a.aqi[1] <= 1000)
                /\ a.level = "Poor" <=> (1000 < a.aqi[1] /\ a.aqi[1] <= 2000)
                /\ a.level = "Severe" <=> 2000 < a.aqi[1]
                /\ Cardinality({b \in alerts : b.city = a.city}) = 1

\* C4 witness: the reading 50.0 has been classified Good.
C4_Witness ==
    /\ pc = "done"
    /\ \E a \in alerts : a.aqi = <<500>> /\ a.level = "Good"

\* C5 (as claimed): the KPI section shows the mean of the non-null AQI
\* values, and shows the placeholder iff the view is empty, has no AQI
\* column, or has no AQI value.
C5_UnavailableIff ==
    KpiDone =>
        /\ kpi.kind = "warning" <=>
                \/ filtered_df.rows = <<>>
                \/ "AQI" \notin filtered_df.cols
                \/ SelectSeq(filtered_df.rows, HasAQI) = <<>>
        /\ kpi.kind = "metrics" =>
                /\ kpi.avg.n > 0
                /\ kpi.avg.n = Len(SelectSeq(filtered_df.rows, HasAQI))
                /\ kpi.avg.sum = SumAQI(filtered_df.rows)

\* C6 (as claimed): among cities tied for the largest (smallest) mean, the
\* worst (best) city is the one whose first row comes earliest in the view.
C6_TieByRowOrder ==
    (KpiDone /\ kpi.kind = "metrics") =>
        /\ Cardinality(Worst) > 1 => kpi.worst = <<EarliestOf(Worst)>>
        /\ Cardinality(Best) > 1 => kpi.best = <<EarliestOf(Best)>>

\* C6 (amended): among cities tied for the largest (smallest) mean, the worst
\* (best) city is the one whose name comes first in sorted order.
C6_TieByName ==
    (KpiDone /\ kpi.kind = "metrics") =>
        /\ Cardinality(Worst) > 1 => kpi.worst = <<FirstNamedOf(Worst)>>
        /\ Cardinality(Best) > 1 => kpi.best = <<FirstNamedOf(Best)>>

\* C6 witness: two cities are tied, the view starts with a Mumbai row, and
\* Delhi is shown as the worst and as the best city.
C6_Witness ==
    /\ KpiDone
    /\ kpi.kind = "metrics"
    /\ Cardinality(Worst) > 1
    /\ filtered_df.rows[1].City = <<"Mumbai">>
    /\ kpi.worst = <<"Delhi">>
    /\ kpi.best = <<"Delhi">>

\* C7 (as claimed): once a pass has its selection, it ends with the KPI
\* block, the three charts and one alert line per selected city all shown.
C7_AllElementsShown ==
    (pc \in {"done", "crashed"} /\ selected_pollutant # "") =>
        /\ kpi.kind # "none"
        /\ fig # "none"
        /\ fig2 # "none"
        /\ fig3 # "none"
        /\ \A c \in selected_cities : \E a \in alerts : a.city = c

\* C8: when the read fails, the pass stops at the load step: the error is
\* shown and nothing is cleaned, filtered, computed or drawn.
C8_HaltOnLoadError ==
    status = "error" =>
        /\ pc = "stopped"
        /\ df = NoFrame
        /\ filtered_df = NoFrame
        /\ selected_cities = {}
        /\ kpi = NoKpi
        /\ fig = "none"
        /\ aqi_avg = <<>>
        /\ fig2 = "none"
        /\ fig3 = "none"
        /\ alerts = {}

\* C8 witness: the read of a file with rows has failed.
C8_Witness ==
    /\ status = "error"
    /\ file.rows # <<>>

\* C9 (as claimed): the per-city table has an entry for a city iff the city
\* has an AQI value in the view, the entry is that city's mean, and the
\* worst and best cities are entries with the largest and smallest value.
C9_EntryIffMeasured ==
    (BarDone /\ "AQI" \in filtered_df.cols) =>
        /\ {aqi_avg[i].City : i \in 1..Len(aqi_avg)} = Measured
        /\ \A i \in 1..Len(aqi_avg) :
                MeanEq(aqi_avg[i].AQI, CityMean(aqi_avg[i].City))
        /\ kpi.kind = "metrics" =>
                /\ \E c \in Worst : kpi.worst = <<c>>
                /\ \E c \in Best : kpi.best = <<c>>

\* C10: in every pass, also after selection changes, the view and what was
\* computed from it are those of the loaded table under the selection of
\* that pass.
C10_FreshView ==
    Filtered =>
        LET view == Filter(df, selected_cities, date_range)
        IN  /\ filtered_df = view
            /\ KpiDone /\ kpi.kind = "metrics" => kpi.avg = MeanAQI(view.rows)
            /\ BarDone /\ fig2 = "chart" => aqi_avg = GroupMean(view.rows)
            /\ pc = "done" =>
                    alerts = {AlertLine(c, view) : c \in selected_cities}

\* C10 witness: a pass started by a widget change has finished with a view
\* that leaves out a row of the table.
C10_Witness ==
    /\ reran
    /\ pc = "done"
    /\ filtered_df.rows # <<>>
    /\ Len(filtered_df.rows) < Len(df.rows)

====
